---- MODULE Spec2Model ----
(***************************************************************************)
(* XBloom recipe client (src/xbloom_client.py) and the two CLI commands of *)
(* src/recipe_maker.py that feed it a member id.                           *)
(*                                                                         *)
(* Three specifications share this module:                                 *)
(*   Spec       the client: credential file, the four API operations, the  *)
(*              create/list CLI commands, one POST per invocation;         *)
(*   SpecCodec  rsa_encrypt applied to bounded plaintexts;                 *)
(*   SpecShare  parse_share_id applied to bounded share strings.           *)
(*                                                                         *)
(* Representation.  A Python str that the code serialises or scans is a    *)
(* sequence of one-character strings; a Python dict that is only looked up *)
(* is a TLA+ function whose DOMAIN is its key set; a value handed to       *)
(* json.dumps is a tagged record [k, v] (k in "str", "int", "float",       *)
(* "list", "dict").  bytes are sequences over 0..255.                      *)
(***************************************************************************)
EXTENDS Integers, Sequences, FiniteSets, TLC

VARIABLES
    authFile,        \* ~/.xbloom_auth: None, or [text, mode]
    cryptoAvailable, \* whether the 'cryptography' package can be imported
    lastCall,        \* the last invocation: operation, requests sent, outcome
    plaintext,       \* rsa_encrypt: argument
    padSeed,         \* rsa_encrypt: randomness of the PKCS1v1.5 padding
    ciphertext,      \* rsa_encrypt: result (NotRun before the call)
    shareInput,      \* parse_share_id: argument
    shareId          \* parse_share_id: result (NotRun before the call)

vars == <<authFile, cryptoAvailable, lastCall,
          plaintext, padSeed, ciphertext, shareInput, shareId>>

clientVars == <<authFile, cryptoAvailable, lastCall>>
codecVars  == <<plaintext, padSeed, ciphertext>>
shareVars  == <<shareInput, shareId>>

(***************************************************************************)
(* Bounds of the model.                                                    *)
(***************************************************************************)
MaxPours    == 2   \* longest pour list passed to create_recipe
MaxLen      == 236 \* longest plaintext given to rsa_encrypt
MaxTok      == 4   \* most tokens concatenated into a share string

(***************************************************************************)
(* Python values.                                                          *)
(***************************************************************************)
None   == [k |-> "None", v |-> 0]
NotRun == [k |-> "NotRun", v |-> 0]

JStr(s)   == [k |-> "str", v |-> s]
JInt(n)   == [k |-> "int", v |-> n]
JFloat(t) == [k |-> "float", v |-> t]   \* t tenths: 3.5 is JFloat(35)
JList(xs) == [k |-> "list", v |-> xs]
JDict(ps) == [k |-> "dict", v |-> ps]   \* ps: sequence of <<key, value>>

\* dict.get(key, default) on a dict held as a function
Get(d, key, default) == IF key \in DOMAIN d THEN d[key] ELSE default

\* dict.update(e): keys of e are added, and replace the keys d already has
Update(d, e) ==
    [key \in DOMAIN d \cup DOMAIN e |-> IF key \in DOMAIN e THEN e[key] ELSE d[key]]

\* dict.get(key, default) on a JDict: the value of the last pair with that key
RECURSIVE PairsGet(_, _, _)
PairsGet(ps, key, default) ==
    IF ps = <<>> THEN default
    ELSE IF ps[Len(ps)][1] = key THEN ps[Len(ps)][2]
         ELSE PairsGet(SubSeq(ps, 1, Len(ps) - 1), key, default)

(***************************************************************************)
(* json.dumps for str, int, float, list and dict values.                   *)
(***************************************************************************)
DigitChars == <<"0", "1", "2", "3", "4", "5", "6", "7", "8", "9">>

RECURSIVE NatToChars(_)
NatToChars(n) ==
    IF n < 10 THEN <<DigitChars[n + 1]>>
    ELSE NatToChars(n \div 10) \o <<DigitChars[(n % 10) + 1]>>

IntToChars(n) == IF n < 0 THEN <<"-">> \o NatToChars(0 - n) ELSE NatToChars(n)

\* float.__repr__ for a float with one fractional digit
FloatToChars(t) ==
    LET a == IF t < 0 THEN 0 - t ELSE t
    IN  (IF t < 0 THEN <<"-">> ELSE <<>>)
        \o NatToChars(a \div 10) \o <<".", DigitChars[(a % 10) + 1]>>

\* the escapes json.dumps applies inside a string (ensure_ascii leaves ASCII alone)
EscapeChar(c) ==
    CASE c = "\"" -> <<"\\", "\"">>
      [] c = "\\" -> <<"\\", "\\">>
      [] c = "\n" -> <<"\\", "n">>
      [] OTHER    -> <<c>>

RECURSIVE EscapeChars(_)
EscapeChars(s) ==
    IF s = <<>> THEN <<>> ELSE EscapeChar(Head(s)) \o EscapeChars(Tail(s))

EncodeStr(s) == <<"\"">> \o EscapeChars(s) \o <<"\"">>

RECURSIVE Dumps(_, _, _)
RECURSIVE DumpItems(_, _, _)
RECURSIVE DumpPairs(_, _, _)
Dumps(val, itemSep, keySep) ==
    CASE val.k = "str"   -> EncodeStr(val.v)
      [] val.k = "int"   -> IntToChars(val.v)
      [] val.k = "float" -> FloatToChars(val.v)
      [] val.k = "list"  -> <<"[">> \o DumpItems(val.v, itemSep, keySep) \o <<"]">>
      [] val.k = "dict"  -> <<"{">> \o DumpPairs(val.v, itemSep, keySep) \o <<"}">>
      [] OTHER           -> <<"n", "u", "l", "l">>

DumpItems(xs, itemSep, keySep) ==
    IF xs = <<>> THEN <<>>
    ELSE Dumps(Head(xs), itemSep, keySep)
         \o (IF Len(xs) > 1 THEN itemSep ELSE <<>>)
         \o DumpItems(Tail(xs), itemSep, keySep)

DumpPairs(ps, itemSep, keySep) ==
    IF ps = <<>> THEN <<>>
    ELSE EncodeStr(Head(ps)[1]) \o keySep \o Dumps(Head(ps)[2], itemSep, keySep)
         \o (IF Len(ps) > 1 THEN itemSep ELSE <<>>)
         \o DumpPairs(Tail(ps), itemSep, keySep)

\* json.dumps(x): separators (", ", ": ")
DumpsDefault(val) == Dumps(val, <<",", " ">>, <<":", " ">>)
\* json.dumps(x, ensure_ascii=False, separators=(",", ":"))
DumpsCompact(val) == Dumps(val, <<",">>, <<":">>)

(***************************************************************************)
(* json.loads: a recursive-descent reader over positions of the text.      *)
(* Every reader returns [val, next]; val.k = "error" when the text is not  *)
(* JSON of the shapes above.                                               *)
(***************************************************************************)
JError == [k |-> "error", v |-> 0]

CharAt(s, i) == IF i >= 1 /\ i <= Len(s) THEN s[i] ELSE "<eof>"

RECURSIVE SkipWs(_, _)
SkipWs(s, i) == IF CharAt(s, i) \in {" ", "\n"} THEN SkipWs(s, i + 1) ELSE i

IsDigit(c) == c \in {"0", "1", "2", "3", "4", "5", "6", "7", "8", "9"}
DigitVal(c) == CHOOSE d \in 0..9 : DigitChars[d + 1] = c

\* digits from position i: [n, next]
RECURSIVE ReadNat(_, _, _)
ReadNat(s, i, acc) ==
    IF IsDigit(CharAt(s, i)) THEN ReadNat(s, i + 1, acc * 10 + DigitVal(s[i]))
    ELSE [n |-> acc, next |-> i]

\* the number whose digits w were read: an int, or a float with one
\* fractional digit
NumAfterDigits(s, w, sign) ==
    IF CharAt(s, w.next) = "."
    THEN IF IsDigit(CharAt(s, w.next + 1)) /\ ~IsDigit(CharAt(s, w.next + 2))
         THEN [val  |-> JFloat(sign * (w.n * 10 + DigitVal(s[w.next + 1]))),
               next |-> w.next + 2]
         ELSE [val |-> JError, next |-> Len(s) + 1]
    ELSE [val |-> JInt(sign * w.n), next |-> w.next]

ParseNum(s, i) ==
    LET neg == CharAt(s, i) = "-"
        j   == IF neg THEN i + 1 ELSE i
    IN  IF ~IsDigit(CharAt(s, j)) THEN [val |-> JError, next |-> Len(s) + 1]
        ELSE NumAfterDigits(s, ReadNat(s, j, 0), IF neg THEN 0 - 1 ELSE 1)

\* the characters of a string literal whose opening quote is at i - 1
RECURSIVE ReadStr(_, _, _)
ReadStr(s, i, acc) ==
    LET c == CharAt(s, i)
    IN  CASE c = "<eof>" -> [val |-> JError, next |-> Len(s) + 1]
          [] c = "\""    -> [val |-> JStr(acc), next |-> i + 1]
          [] c = "\\"    ->
                LET e == CharAt(s, i + 1)
                IN  CASE e = "\"" -> ReadStr(s, i + 2, Append(acc, "\""))
                      [] e = "\\" -> ReadStr(s, i + 2, Append(acc, "\\"))
                      [] e = "n"  -> ReadStr(s, i + 2, Append(acc, "\n"))
                      [] OTHER    -> [val |-> JError, next |-> Len(s) + 1]
          [] OTHER       -> ReadStr(s, i + 1, Append(acc, c))

RECURSIVE ParseValue(_, _)
RECURSIVE ValueAt(_, _)
RECURSIVE ReadItems(_, _, _)
RECURSIVE ItemsAfter(_, _, _)
RECURSIVE ReadPairs(_, _, _)
RECURSIVE PairsKey(_, _, _)
RECURSIVE PairsColon(_, _, _)
RECURSIVE PairsAfter(_, _, _, _)
\* the value that starts after the white space at i0
ParseValue(s, i0) == ValueAt(s, SkipWs(s, i0))

\* the value whose first character is at i
ValueAt(s, i) ==
    LET c == CharAt(s, i)
    IN  CASE c = "\"" -> ReadStr(s, i + 1, <<>>)
          [] c = "["  ->
                IF CharAt(s, SkipWs(s, i + 1)) = "]"
                THEN [val |-> JList(<<>>), next |-> SkipWs(s, i + 1) + 1]
                ELSE ReadItems(s, i + 1, <<>>)
          [] c = "{"  ->
                IF CharAt(s, SkipWs(s, i + 1)) = "}"
                THEN [val |-> JDict(<<>>), next |-> SkipWs(s, i + 1) + 1]
                ELSE ReadPairs(s, i + 1, <<>>)
          [] c = "-" \/ IsDigit(c) -> ParseNum(s, i)
          [] OTHER    -> [val |-> JError, next |-> Len(s) + 1]

\* the items of a list from position i, acc the items read so far
ReadItems(s, i, acc) == ItemsAfter(s, ParseValue(s, i), acc)

\* what follows the item just read: a comma and more items, or the bracket
ItemsAfter(s, item, acc) ==
    LET j == SkipWs(s, item.next)
    IN  IF item.val.k = "error" THEN [val |-> JError, next |-> Len(s) + 1]
        ELSE CASE CharAt(s, j) = "," -> ReadItems(s, j + 1, Append(acc, item.val))
               [] CharAt(s, j) = "]" -> [val |-> JList(Append(acc, item.val)), next |-> j + 1]
               [] OTHER              -> [val |-> JError, next |-> Len(s) + 1]

\* the pairs of an object from position i0, acc the pairs read so far
ReadPairs(s, i0, acc) == PairsKey(s, SkipWs(s, i0), acc)

\* the key of a pair is a string literal
PairsKey(s, i, acc) ==
    IF CharAt(s, i) = "\"" THEN PairsColon(s, ReadStr(s, i + 1, <<>>), acc)
    ELSE [val |-> JError, next |-> Len(s) + 1]

\* the colon after the key, then the value
PairsColon(s, key, acc) ==
    LET c == SkipWs(s, key.next)
    IN  IF key.val.k # "error" /\ CharAt(s, c) = ":"
        THEN PairsAfter(s, key, ParseValue(s, c + 1), acc)
        ELSE [val |-> JError, next |-> Len(s) + 1]

\* what follows the pair just read: a comma and more pairs, or the brace
PairsAfter(s, key, val, acc) ==
    LET j == SkipWs(s, val.next)
    IN  IF val.val.k = "error" THEN [val |-> JError, next |-> Len(s) + 1]
        ELSE CASE CharAt(s, j) = "," ->
                    ReadPairs(s, j + 1, Append(acc, <<key.val.v, val.val>>))
               [] CharAt(s, j) = "}" ->
                    [val  |-> JDict(Append(acc, <<key.val.v, val.val>>)),
                     next |-> j + 1]
               [] OTHER -> [val |-> JError, next |-> Len(s) + 1]

\* the value read is the whole text but for trailing white space
WholeText(s, r) ==
    IF r.val.k # "error" /\ SkipWs(s, r.next) = Len(s) + 1 THEN r.val ELSE JError

\* json.loads(text): the value, or JError when the text is not one JSON value
Loads(s) == WholeText(s, ParseValue(s, 1))

(***************************************************************************)
(* str helpers used by parse_share_id.                                     *)
(***************************************************************************)
Whitespace == {" ", "\n", "\t"}

RECURSIVE LStrip(_)
LStrip(s) == IF s # <<>> /\ Head(s) \in Whitespace THEN LStrip(Tail(s)) ELSE s

RECURSIVE RStrip(_)
RStrip(s) ==
    IF s # <<>> /\ s[Len(s)] \in Whitespace THEN RStrip(SubSeq(s, 1, Len(s) - 1)) ELSE s

\* str.strip()
Strip(s) == RStrip(LStrip(s))

\* sep occurs in s at position i
MatchAt(s, sep, i) ==
    /\ i >= 1
    /\ i + Len(sep) - 1 <= Len(s)
    /\ SubSeq(s, i, i + Len(sep) - 1) = sep

\* sep in s
Contains(s, sep) == \E i \in 1..Len(s) : MatchAt(s, sep, i)

\* str.split(sep): pieces between the occurrences of sep found left to right
RECURSIVE SplitFrom(_, _, _, _, _)
SplitFrom(s, sep, i, cur, acc) ==
    IF i > Len(s) THEN Append(acc, cur)
    ELSE IF MatchAt(s, sep, i)
         THEN SplitFrom(s, sep, i + Len(sep), <<>>, Append(acc, cur))
         ELSE SplitFrom(s, sep, i + 1, Append(cur, s[i]), acc)

Split(s, sep) == SplitFrom(s, sep, 1, <<>>, <<>>)

(***************************************************************************)
(* urllib.parse.unquote on ASCII text: %XX with two hex digits becomes the *)
(* character of that code, anything else is kept.                          *)
(***************************************************************************)
HexDigits == <<"0", "1", "2", "3", "4", "5", "6", "7", "8", "9",
               "a", "b", "c", "d", "e", "f">>
HexUpper  == <<"0", "1", "2", "3", "4", "5", "6", "7", "8", "9",
               "A", "B", "C", "D", "E", "F">>

IsHex(c) == \E d \in 1..16 : HexDigits[d] = c \/ HexUpper[d] = c
HexVal(c) == (CHOOSE d \in 1..16 : HexDigits[d] = c \/ HexUpper[d] = c) - 1

\* the printable ASCII characters, codes 32..126
Printable ==
    <<" ", "!", "\"", "#", "$", "%", "&", "'", "(", ")", "*", "+", ",", "-", ".", "/",
      "0", "1", "2", "3", "4", "5", "6", "7", "8", "9", ":", ";", "<", "=", ">", "?",
      "@", "A", "B", "C", "D", "E", "F", "G", "H", "I", "J", "K", "L", "M", "N", "O",
      "P", "Q", "R", "S", "T", "U", "V", "W", "X", "Y", "Z", "[", "\\", "]", "^", "_",
      "<grave>", "a", "b", "c", "d", "e", "f", "g", "h", "i", "j", "k", "l", "m", "n", "o",
      "p", "q", "r", "s", "t", "u", "v", "w", "x", "y", "z", "{", "|", "}", "~">>

\* the character of a byte; a byte that is not printable ASCII is kept symbolic
Chr(b) ==
    CASE b >= 32 /\ b <= 126 -> Printable[b - 31]
      [] b = 10              -> "\n"
      [] b = 9               -> "\t"
      [] OTHER               -> "<other>"

RECURSIVE UnquoteFrom(_, _)
UnquoteFrom(s, i) ==
    IF i > Len(s) THEN <<>>
    ELSE IF s[i] = "%" /\ i + 2 <= Len(s) /\ IsHex(s[i + 1]) /\ IsHex(s[i + 2])
         THEN <<Chr(16 * HexVal(s[i + 1]) + HexVal(s[i + 2]))>> \o UnquoteFrom(s, i + 3)
         ELSE <<s[i]>> \o UnquoteFrom(s, i + 1)

unquote(s) == UnquoteFrom(s, 1)

(***************************************************************************)
(* parse_share_id                                                          *)
(***************************************************************************)
IdEq == <<"i", "d", "=">>
Amp  == <<"&">>

parse_share_id(share_url_or_id) ==
    LET s == Strip(share_url_or_id)
    IN  unquote(IF Contains(s, IdEq)
                THEN LET parts == Split(s, IdEq)
                     IN  Split(parts[Len(parts)], Amp)[1]
                ELSE s)

\* the pieces share strings are put together from
ShareTokens ==
    { <<"h", ":", "/", "/", "s", "/", "x", "?">>,      \* h://s/x?
      <<"i", "d", "=", "A", "B", "C">>,                \* id=ABC
      <<"i", "d", "=", "%", "4", "1", "%", "2", "6">>, \* id=%41%26
      <<"u", "i", "d", "=", "7">>,                     \* uid=7
      <<"f", "o", "o", "=", "1">>,                     \* foo=1
      <<"&">>,
      <<"A", "B", "%", "3", "d">>,                     \* AB%3d
      <<"%", "G", "1">>,                               \* not an escape
      <<" ">> }

RECURSIVE Concat(_)
Concat(seqs) == IF seqs = <<>> THEN <<>> ELSE Head(seqs) \o Concat(Tail(seqs))

ShareInputs ==
    { Concat(ts) : ts \in UNION { [1..n -> ShareTokens] : n \in 0..MaxTok } }

(***************************************************************************)
(* Block cipher codec: rsa_encrypt.                                        *)
(***************************************************************************)
RSA_KEY_BYTES       == 128
RSA_MAX_PLAIN_BLOCK == 117

Min(a, b) == IF a < b THEN a ELSE b

\* bytes[start:end] with Python's clamping of the two ends
Slice(s, start, end) == SubSeq(s, start + 1, Min(end, Len(s)))

\* a slip that would round the block count down
NumBlocksFloor(n) == n \div RSA_MAX_PLAIN_BLOCK

\* math.ceil(len(plaintext) / RSA_MAX_PLAIN_BLOCK)
NumBlocks(n) ==
    IF n % RSA_MAX_PLAIN_BLOCK = 0 THEN n \div RSA_MAX_PLAIN_BLOCK
    ELSE (n \div RSA_MAX_PLAIN_BLOCK) + 1

\* a slip that would start each block one byte early
BlockAtOverlap(pt, i) ==
    LET start == i * (RSA_MAX_PLAIN_BLOCK - 1)
        end   == Min(start + RSA_MAX_PLAIN_BLOCK, Len(pt))
    IN  Slice(pt, start, end)

\* the i-th plaintext block of the loop (i from 0)
BlockAt(pt, i) ==
    LET start == i * RSA_MAX_PLAIN_BLOCK
        end   == Min(start + RSA_MAX_PLAIN_BLOCK, Len(pt))
    IN  Slice(pt, start, end)

\* the plaintext blocks the loop encrypts, in order
PlainBlocks(pt) == [b \in 1..NumBlocks(Len(pt)) |-> BlockAt(pt, b - 1)]

\* PKCS1v1.5 type 2 encoding: 00 02 PS 00 M, PS random non-zero bytes
PKCS1v15Pad(block, seed) ==
    LET psLen == RSA_KEY_BYTES - 3 - Len(block)
    IN  <<0, 2>> \o [j \in 1..psLen |-> ((seed + 7 * j) % 255) + 1] \o <<0>> \o block

\* the RSA public-key permutation m^e mod n, abstracted to a bijection on
\* the bytes of the encoded message
RsaByte(b) == (b * 167 + 91) % 256
RsaPermute(em) == [j \in 1..Len(em) |-> RsaByte(em[j])]

\* pub_key.encrypt(block, padding.PKCS1v15()): ValueError when the block
\* leaves no room for the 11 bytes of padding
PubKeyEncrypt(block, seed) ==
    IF Len(block) > RSA_KEY_BYTES - 11 THEN [k |-> "ValueError", v |-> <<>>]
    ELSE [k |-> "bytes", v |-> RsaPermute(PKCS1v15Pad(block, seed))]

RECURSIVE EncryptLoop(_, _, _, _)
EncryptLoop(pt, i, seed, acc) ==
    IF i >= NumBlocks(Len(pt)) THEN [k |-> "bytes", v |-> acc]
    ELSE LET encrypted == PubKeyEncrypt(BlockAt(pt, i), seed + i)
         IN  IF encrypted.k = "ValueError" THEN encrypted
             ELSE EncryptLoop(pt, i + 1, seed, acc \o encrypted.v)

rsa_encrypt(pt, seed) == EncryptLoop(pt, 0, seed, <<>>)

\* plaintexts: length up to MaxLen, bytes following a pattern <<a, b>>
BytePatterns == {<<0, 0>>, <<1, 0>>, <<37, 250>>}
PadSeeds     == {0, 101}

PlaintextOf(len, pat) == [j \in 1..len |-> (pat[1] * (j - 1) + pat[2]) % 256]
Plaintexts == { PlaintextOf(len, pat) : len \in 0..MaxLen, pat \in BytePatterns }

(***************************************************************************)
(* Client constants and the credential file.                               *)
(***************************************************************************)
BASE_URL == "https://client-api.xbloom.com/"
SKEY     == "testskey"

K_member_id == <<"m", "e", "m", "b", "e", "r", "_", "i", "d">>
K_token     == <<"t", "o", "k", "e", "n">>
K_email     == <<"e", "m", "a", "i", "l">>

\* values the credential record is built from
Emails     == {<<"a", "@", "x">>}        \* the email typed at login
RespEmails == {<<"s", "@", "x">>}        \* the email the server returns
Passwords  == {"pw"}
Tokens     == {<<>>, <<"t", "\"", "\\">>}
TableIds   == {0, 7}
MemberIds  == {9}

\* truth value of a Python value
Truthy(x) ==
    CASE x.k = "None"                  -> FALSE
      [] x.k = "int" \/ x.k = "float" -> x.v # 0
      [] OTHER                         -> x.v # <<>>

\* a slip that would store the token under the email and the email under the token
save_auth_swapped(member_id, token, email) ==
    [text |-> DumpsDefault(JDict(<< <<K_member_id, JInt(member_id)>>,
                                    <<K_token, JStr(email)>>,
                                    <<K_email, JStr(token)>> >>)),
     mode |-> <<6, 0, 0>>]

\* save_auth: the file after write_text(json.dumps(data)) and chmod(0o600)
save_auth(member_id, token, email) ==
    [text |-> DumpsDefault(JDict(<< <<K_member_id, JInt(member_id)>>,
                                    <<K_token, JStr(token)>>,
                                    <<K_email, JStr(email)>> >>)),
     mode |-> <<6, 0, 0>>]

\* load_auth: None when the file is missing or is not JSON
read_auth(file) ==
    IF file = None THEN None
    ELSE LET parsed == Loads(file.text)
         IN  IF parsed.k = "error" THEN None ELSE parsed

\* every content the credential file can have in this model
AuthFiles ==
    {None} \cup { save_auth(m, t, e) : m \in TableIds \cup {0},
                                       t \in Tokens \cup {<<>>},
                                       e \in Emails \cup RespEmails }

\* read_auth tabulated over AuthFiles, so that a file is parsed once
LoadAuthTable == [file \in AuthFiles |-> read_auth(file)]
load_auth(file) == LoadAuthTable[file]

(***************************************************************************)
(* Request envelope builder.                                               *)
(***************************************************************************)
make_base_form(member_id, token, file) ==
    LET auth == IF token = <<>> THEN load_auth(file) ELSE None
    IN  [interfaceVersion |-> 20240918, skey |-> SKEY, phoneType |-> "Android",
         memberId |-> member_id, clientType |-> 2, languageType |-> 1,
         token |-> IF token # <<>> THEN token
                   ELSE IF Truthy(auth) THEN PairsGet(auth.v, K_token, JStr(<<>>)).v
                        ELSE <<>>]

\* encrypt_form: JSON, rsa_encrypt, base64.  The body is kept as the form it
\* encodes; rsa_encrypt itself is followed under SpecCodec.  Importing the
\* cryptography package is what can fail.
encrypt_form(form, crypto) ==
    IF crypto THEN [ok |-> TRUE, body |-> [encrypted |-> TRUE, form |-> form]]
    ELSE [ok |-> FALSE, body |-> <<>>]

(***************************************************************************)
(* Transport.  net is what the network and the server do with the request: *)
(* [kind |-> "ok", resp |-> r], or kind "transport" (connection error or   *)
(* timeout), or kind "parse" (the body received is not JSON).              *)
(***************************************************************************)
PostRequest(endpoint, body, is_encrypted) ==
    [url     |-> <<BASE_URL, endpoint>>,
     method  |-> "POST",
     data    |-> IF is_encrypted THEN body ELSE [encrypted |-> FALSE, form |-> body],
     headers |-> IF is_encrypted
                 THEN ("Content-Type" :> "application/json; charset=utf-8")
                      @@ ("Accept" :> "application/json, text/plain, */*")
                 ELSE ("Content-Type" :> "application/json; charset=utf-8")
                      @@ ("Accept" :> "application/json, text/plain, */*")
                      @@ ("Referer" :> "https://share-h5.xbloom.com/")]

PostOutcome(net) ==
    CASE net.kind = "ok"        -> "returned"
      [] net.kind = "transport" -> "TransportError"
      [] OTHER                  -> "ResponseParseError"

\* a slip that would send the request again after a transport failure
post_retry(endpoint, body, is_encrypted, net) ==
    LET req == PostRequest(endpoint, body, is_encrypted)
    IN  [sent    |-> IF net.kind = "transport" THEN <<req, req>> ELSE <<req>>,
         outcome |-> PostOutcome(net),
         resp    |-> IF net.kind = "ok" THEN net.resp ELSE <<>>]

post(endpoint, body, is_encrypted, net) ==
    [sent    |-> <<PostRequest(endpoint, body, is_encrypted)>>,
     outcome |-> PostOutcome(net),
     resp    |-> IF net.kind = "ok" THEN net.resp ELSE <<>>]

\* the result of an operation that stopped before any request was sent
EncryptionFailed == [sent |-> <<>>, outcome |-> "EncryptionError", resp |-> <<>>]

(***************************************************************************)
(* fetch_recipe                                                            *)
(***************************************************************************)
fetch_recipe(share_url_or_id, net) ==
    LET table_id == parse_share_id(share_url_or_id)
        body     == [tableIdOfRSA |-> table_id, interfaceVersion |-> 19700101,
                     skey |-> SKEY]
    IN  post("RecipeDetail.html", body, FALSE, net)

(***************************************************************************)
(* login                                                                   *)
(***************************************************************************)
login_form(email, password) ==
    [interfaceVersion |-> 20240918, skey |-> SKEY, phoneType |-> "Android",
     clientType |-> 2, languageType |-> 1,
     email |-> email, password |-> password, jpushId |-> ""]

\* a slip that would store the record whatever the result
login_store_always(resp, email, file) ==
    LET member == Get(resp, "member", <<>>)
    IN  save_auth(Get(member, "tableId", 0), Get(resp, "token", <<>>),
                  Get(member, "email", email))

\* the credential file after login has looked at the response
login_store(resp, email, file) ==
    IF Get(resp, "result", "") = "success"
    THEN LET member == Get(resp, "member", <<>>)
         IN  save_auth(Get(member, "tableId", 0), Get(resp, "token", <<>>),
                       Get(member, "email", email))
    ELSE file

login(email, password, net, crypto, file) ==
    LET enc == encrypt_form(login_form(email, password), crypto)
        p   == post("tMemberLogin.thtml", enc.body, TRUE, net)
    IN  IF ~enc.ok THEN EncryptionFailed @@ [file |-> file]
        ELSE p @@ [file |-> IF p.outcome = "returned"
                            THEN login_store(p.resp, email, file) ELSE file]

(***************************************************************************)
(* create_recipe                                                           *)
(***************************************************************************)
K_theName   == <<"t", "h", "e", "N", "a", "m", "e">>
K_volume    == <<"v", "o", "l", "u", "m", "e">>
K_temp      == <<"t", "e", "m", "p", "e", "r", "a", "t", "u", "r", "e">>
K_flowRate  == <<"f", "l", "o", "w", "R", "a", "t", "e">>
K_pattern   == <<"p", "a", "t", "t", "e", "r", "n">>
K_pausing   == <<"p", "a", "u", "s", "i", "n", "g">>
K_vibBefore == <<"i", "s", "E", "n", "a", "b", "l", "e", "V", "i", "b", "r", "a", "t", "i", "o", "n", "B", "e", "f", "o", "r", "e">>
K_vibAfter  == <<"i", "s", "E", "n", "a", "b", "l", "e", "V", "i", "b", "r", "a", "t", "i", "o", "n", "A", "f", "t", "e", "r">>

DefaultPour ==
    JDict(<< <<K_theName, JStr(<<"P", "o", "u", "r">>)>>,
             <<K_volume, JFloat(2250)>>,
             <<K_temp, JFloat(930)>>,
             <<K_flowRate, JFloat(35)>>,
             <<K_pattern, JInt(1)>>,
             <<K_pausing, JInt(0)>>,
             <<K_vibBefore, JInt(2)>>,
             <<K_vibAfter, JInt(2)>> >>)

\* pours and pour lists handed to create_recipe
PourBloom ==
    JDict(<< <<K_theName, JStr(<<"B", "\"", "l", "\\", "n">>)>>,
             <<K_volume, JFloat(500)>>,
             <<K_pausing, JInt(30)>> >>)

PourMain ==
    JDict(<< <<K_theName, JStr(<<"M", ",", "]", "}", ":">>)>>,
             <<K_flowRate, JFloat(0 - 5)>>,
             <<K_pattern, JInt(2)>>,
             <<K_pausing, JInt(0 - 1)>> >>)

Pours == {PourBloom, PourMain}

PourLists == { JList(ps) : ps \in UNION { [1..n -> Pours] : n \in 0..MaxPours } }

\* a slip that would also replace an empty pour list by the default pour
effective_pour_list_falsy(pour_list) ==
    IF ~Truthy(pour_list) THEN JList(<<DefaultPour>>) ELSE pour_list

\* the pour list serialised: the default pour when the argument is None
effective_pour_list(pour_list) ==
    IF pour_list = None THEN JList(<<DefaultPour>>) ELSE pour_list

\* json.dumps(pour_list, ensure_ascii=False, separators=(",", ":")) of the
\* effective pour list, tabulated over the pour lists of the model
PourDataTable ==
    [pl \in PourLists \cup {None} |-> DumpsCompact(effective_pour_list(pl))]
pour_data_json(pour_list) == PourDataTable[pour_list]

\* a slip that would let the recipe fields carry the token
create_fields_with_token(f, pour_data, now) ==
    [theName |-> f.name, dose |-> f.dose, grandWater |-> f.grand_water,
     grinderSize |-> f.grinder_size, rpm |-> f.rpm, cupType |-> f.cup_type,
     adaptedModel |-> f.adapted_model,
     isEnableBypassWater |-> f.is_enable_bypass_water,
     isSetGrinderSize |-> f.is_set_grinder_size, theColor |-> f.the_color,
     theSubsetId |-> f.the_subset_id, bypassTemp |-> f.bypass_temp,
     bypassVolume |-> f.bypass_volume, subSetType |-> 2, appPlace |-> <<4>>,
     createTimeStamp |-> now, isShortcuts |-> 2,
     token |-> <<"x">>,
     pourDataJSONStr |-> pour_data]

\* the mapping create_recipe merges over the base form
create_fields(f, pour_data, now) ==
    [theName |-> f.name, dose |-> f.dose, grandWater |-> f.grand_water,
     grinderSize |-> f.grinder_size, rpm |-> f.rpm, cupType |-> f.cup_type,
     adaptedModel |-> f.adapted_model,
     isEnableBypassWater |-> f.is_enable_bypass_water,
     isSetGrinderSize |-> f.is_set_grinder_size, theColor |-> f.the_color,
     theSubsetId |-> f.the_subset_id, bypassTemp |-> f.bypass_temp,
     bypassVolume |-> f.bypass_volume, subSetType |-> 2, appPlace |-> <<4>>,
     createTimeStamp |-> now, isShortcuts |-> 2,
     pourDataJSONStr |-> pour_data]

\* now: int(time.time() * 1000), read when the form is built
create_recipe(member_id, f, pour_list, now, net, crypto, file) ==
    LET form == Update(make_base_form(member_id, <<>>, file),
                       create_fields(f, pour_data_json(pour_list), now))
        enc  == encrypt_form(form, crypto)
    IN  IF ~enc.ok THEN EncryptionFailed
        ELSE post("tuRecipeAdd.tuhtml", enc.body, TRUE, net)

(***************************************************************************)
(* list_my_recipes                                                         *)
(***************************************************************************)
\* a slip that would send the filter whatever its value
list_form_always(member_id, adapted_model, file) ==
    Update(make_base_form(member_id, <<>>, file),
           [pageNumber |-> 1, countPerPage |-> 100, adaptedModel |-> adapted_model])

list_form(member_id, adapted_model, file) ==
    LET form == Update(make_base_form(member_id, <<>>, file),
                       [pageNumber |-> 1, countPerPage |-> 100])
    IN  IF adapted_model # 0 THEN Update(form, [adaptedModel |-> adapted_model])
        ELSE form

list_my_recipes(member_id, adapted_model, net, crypto, file) ==
    LET enc == encrypt_form(list_form(member_id, adapted_model, file), crypto)
    IN  IF ~enc.ok THEN EncryptionFailed
        ELSE post("tuMyTeaRecipeCreated.tuhtml", enc.body, TRUE, net)

(***************************************************************************)
(* recipe_maker.py: the member id the create and list commands pass on.    *)
(***************************************************************************)
\* a slip that would pass a fixed member id instead of the stored one
get_member_id_fixed(file) ==
    LET auth == load_auth(file)
    IN  IF ~Truthy(auth) \/ ~Truthy(PairsGet(auth.v, K_member_id, None))
        THEN [exit |-> TRUE, member_id |-> 0]
        ELSE [exit |-> FALSE, member_id |-> 1]

\* _get_member_id: sys.exit(1) when there is no record or no member id in it
get_member_id(file) ==
    LET auth == load_auth(file)
    IN  IF ~Truthy(auth) \/ ~Truthy(PairsGet(auth.v, K_member_id, None))
        THEN [exit |-> TRUE, member_id |-> 0]
        ELSE [exit |-> FALSE, member_id |-> PairsGet(auth.v, K_member_id, None).v]

\* the command ended before any operation of the client was called
Exited == [sent |-> <<>>, outcome |-> "exit", resp |-> <<>>]

\* cfg.get("pourList") or cfg.get("pour_list")
cfg_pour_list(cfg) == IF Truthy(cfg.pourList) THEN cfg.pourList ELSE cfg.pour_list

\* cmd_create: [called, result]; called is whether create_recipe was invoked
cmd_create(cfg, f, now, net, crypto, file) ==
    LET mid == get_member_id(file)
    IN  IF mid.exit \/ cfg_pour_list(cfg) = None
        THEN [called |-> FALSE, member_id |-> 0, result |-> Exited]
        ELSE [called    |-> TRUE,
              member_id |-> mid.member_id,
              result    |-> create_recipe(mid.member_id, f, cfg_pour_list(cfg), now,
                                          net, crypto, file)]

\* cmd_list: list_my_recipes(member_id) with the default filter
cmd_list(net, crypto, file) ==
    LET mid == get_member_id(file)
    IN  IF mid.exit THEN [called |-> FALSE, member_id |-> 0, result |-> Exited]
        ELSE [called    |-> TRUE,
              member_id |-> mid.member_id,
              result    |-> list_my_recipes(mid.member_id, 1, net, crypto, file)]

(***************************************************************************)
(* Inputs of the client model.                                             *)
(***************************************************************************)
Optional(key, values) == {<<>>} \cup { key :> x : x \in values }

Members == { t @@ e : t \in Optional("tableId", TableIds),
                      e \in Optional("email", RespEmails) }

FullLogin ==
    ("member" :> (("tableId" :> 7) @@ ("email" :> <<"s", "@", "x">>)))
    @@ ("token" :> <<"t", "\"", "\\">>)

\* what the login endpoint may answer: on success every field may be missing;
\* a refusal may come bare, or carry all the fields of a success
LoginResponses ==
    { ("result" :> "success") @@ m @@ t : m \in Optional("member", Members),
                                          t \in Optional("token", Tokens) }
    \cup { ("result" :> "fail") @@ ("info" :> "bad password"),
           ("result" :> "fail") @@ FullLogin,
           FullLogin }

\* what the other endpoints may answer
OtherResponses ==
    { ("result" :> "success") @@ ("tableId" :> 11),
      ("result" :> "fail") @@ ("info" :> "denied"),
      ("info" :> "no result") }

NetOf(responses) ==
    { [kind |-> "ok", resp |-> r] : r \in responses }
    \cup { [kind |-> "transport", resp |-> <<>>], [kind |-> "parse", resp |-> <<>>] }

DefaultFields ==
    [name |-> "My Recipe", dose |-> JFloat(150), grand_water |-> JFloat(150),
     grinder_size |-> JFloat(700), rpm |-> 120, cup_type |-> 1, adapted_model |-> 1,
     is_enable_bypass_water |-> 2, is_set_grinder_size |-> 1, the_color |-> "#C9D5B8",
     the_subset_id |-> 0, bypass_temp |-> JFloat(850), bypass_volume |-> JFloat(50)]

OtherFields ==
    [name |-> "token", dose |-> JFloat(185), grand_water |-> JFloat(160),
     grinder_size |-> JFloat(655), rpm |-> 90, cup_type |-> 2, adapted_model |-> 2,
     is_enable_bypass_water |-> 1, is_set_grinder_size |-> 2, the_color |-> "#000000",
     the_subset_id |-> 3, bypass_temp |-> JFloat(900), bypass_volume |-> JFloat(0)]

\* member id, recipe fields and clock reading of a direct create_recipe call
CreateArgs == { <<9, OtherFields, 2000>> }

\* recipe configurations read by the create command
Cfgs ==
    { [pourList |-> p, pour_list |-> None] : p \in PourLists \cup {None} }
    \cup { [pourList |-> p, pour_list |-> q] :
             p \in {None, JList(<<>>)}, q \in {JList(<<>>), JList(<<PourMain>>)} }

AdaptedModels == {0 - 1, 0, 1, 2}

Shares == { <<"A", "B", "C">>,
            <<"h", ":", "/", "/", "s", "/", "x", "?", "i", "d", "=", "A", "%", "4", "1">> }

(***************************************************************************)
(* The client as a state machine.                                          *)
(***************************************************************************)
NoCall ==
    [op |-> "none", via |-> "none", arg |-> <<>>, net |-> <<>>,
     sent |-> <<>>, outcome |-> "none", resp |-> <<>>]

Call(op, via, arg, net, r) ==
    [op |-> op, via |-> via, arg |-> arg, net |-> net,
     sent |-> r.sent, outcome |-> r.outcome, resp |-> r.resp]

IdleCodec == plaintext = <<>> /\ padSeed = 0 /\ ciphertext = NotRun
IdleShare == shareInput = <<>> /\ shareId = NotRun
IdleClient == authFile = None /\ cryptoAvailable = TRUE /\ lastCall = NoCall

Init ==
    /\ authFile = None
    /\ cryptoAvailable \in BOOLEAN
    /\ lastCall = NoCall
    /\ IdleCodec
    /\ IdleShare

Login ==
    \E email \in Emails, password \in Passwords, net \in NetOf(LoginResponses) :
        LET r == login(email, password, net, cryptoAvailable, authFile)
        IN  /\ authFile' = r.file
            /\ lastCall' = Call("login", "lib", [email |-> email], net, r)
            /\ UNCHANGED <<cryptoAvailable, codecVars, shareVars>>

FetchRecipe ==
    \E share \in Shares, net \in NetOf(OtherResponses) :
        /\ lastCall' = Call("fetch_recipe", "lib", [share |-> share], net,
                            fetch_recipe(share, net))
        /\ UNCHANGED <<authFile, cryptoAvailable, codecVars, shareVars>>

CreateRecipe ==
    \E a \in CreateArgs, pour_list \in PourLists \cup {None}, net \in NetOf(OtherResponses) :
        /\ lastCall' = Call("create_recipe", "lib",
                            [member_id |-> a[1], pour_list |-> pour_list], net,
                            create_recipe(a[1], a[2], pour_list, a[3], net,
                                          cryptoAvailable, authFile))
        /\ UNCHANGED <<authFile, cryptoAvailable, codecVars, shareVars>>

ListMyRecipes ==
    \E member_id \in MemberIds, adapted_model \in AdaptedModels,
       net \in NetOf(OtherResponses) :
        /\ lastCall' = Call("list_my_recipes", "lib",
                            [member_id |-> member_id, adapted_model |-> adapted_model],
                            net,
                            list_my_recipes(member_id, adapted_model, net,
                                            cryptoAvailable, authFile))
        /\ UNCHANGED <<authFile, cryptoAvailable, codecVars, shareVars>>

CmdCreate ==
    \E cfg \in Cfgs, net \in NetOf(OtherResponses) :
        LET c == cmd_create(cfg, DefaultFields, 3000, net, cryptoAvailable, authFile)
        IN  /\ lastCall' = Call(IF c.called THEN "create_recipe" ELSE "none", "cli",
                                [member_id |-> c.member_id,
                                 pour_list |-> cfg_pour_list(cfg)],
                                net, c.result)
            /\ UNCHANGED <<authFile, cryptoAvailable, codecVars, shareVars>>

CmdList ==
    \E net \in NetOf(OtherResponses) :
        LET c == cmd_list(net, cryptoAvailable, authFile)
        IN  /\ lastCall' = Call(IF c.called THEN "list_my_recipes" ELSE "none", "cli",
                                [member_id |-> c.member_id, adapted_model |-> 1],
                                net, c.result)
            /\ UNCHANGED <<authFile, cryptoAvailable, codecVars, shareVars>>

Next == Login \/ FetchRecipe \/ CreateRecipe \/ ListMyRecipes \/ CmdCreate \/ CmdList

Spec == Init /\ [][Next]_vars

(***************************************************************************)
(* rsa_encrypt on bounded plaintexts.                                      *)
(***************************************************************************)
InitCodec ==
    /\ plaintext \in Plaintexts
    /\ padSeed \in PadSeeds
    /\ ciphertext = NotRun
    /\ IdleClient
    /\ IdleShare

RsaEncrypt ==
    /\ ciphertext = NotRun
    /\ ciphertext' = rsa_encrypt(plaintext, padSeed)
    /\ UNCHANGED <<plaintext, padSeed, clientVars, shareVars>>

NextCodec == RsaEncrypt

SpecCodec == InitCodec /\ [][NextCodec]_vars

(***************************************************************************)
(* parse_share_id on bounded share strings.                                *)
(***************************************************************************)
InitShare ==
    /\ shareInput \in ShareInputs
    /\ shareId = NotRun
    /\ IdleClient
    /\ IdleCodec

ParseShareId ==
    /\ shareId = NotRun
    /\ shareId' = JStr(parse_share_id(shareInput))
    /\ UNCHANGED <<shareInput, clientVars, codecVars>>

NextShare == ParseShareId

SpecShare == InitShare /\ [][NextShare]_vars

(***************************************************************************)
(* Properties of the client (Spec).                                        *)
(***************************************************************************)
ClientOps == {"login", "fetch_recipe", "create_recipe", "list_my_recipes"}
BaseKeys  == {"interfaceVersion", "skey", "phoneType", "memberId", "clientType",
              "languageType", "token"}

\* the call posted one request; its envelope is SentForm(c)
Posted(c)   == c.op \in ClientOps /\ Len(c.sent) >= 1
SentForm(c) == c.sent[1].data.form

AuthCall(c) == c.op \in {"create_recipe", "list_my_recipes"} /\ Posted(c)

ResultOf(resp) == Get(resp, "result", "")

LoginSucceeded(c) ==
    c.op = "login" /\ c.outcome = "returned" /\ ResultOf(c.resp) = "success"

\* the server answered the call with a result other than "success"
ApiFailure(c) == Posted(c) /\ c.net.kind = "ok" /\ ResultOf(c.net.resp) # "success"

\* fields of the Credential Record as load_auth reads them back
StoredMemberId(file) == PairsGet(load_auth(file).v, K_member_id, None)
StoredToken(file)    == PairsGet(load_auth(file).v, K_token, None)
StoredEmail(file)    == PairsGet(load_auth(file).v, K_email, None)

\* C1: when the server answers any operation with a result other than
\* "success", the operation returns exactly that response and the credential
\* file is what it was before the call; the credential file changes only in
\* a login step whose response has result "success".
C1_ApiFailureLeavesRecord ==
    [][ /\ ApiFailure(lastCall') =>
              /\ lastCall'.outcome = "returned"
              /\ lastCall'.resp = lastCall'.net.resp
              /\ authFile' = authFile
        /\ authFile' # authFile => LoginSucceeded(lastCall') ]_vars

\* a refused login that carried a member and a token, with a record already stored
C1_Witness ==
    /\ lastCall.op = "login"
    /\ ApiFailure(lastCall)
    /\ "token" \in DOMAIN lastCall.resp
    /\ authFile # None

\* C2: a successful login leaves a Credential Record holding the response's
\* member.tableId, token and member.email, replacing what was stored; the
\* record then stays as it is until the next successful login, and every
\* create_recipe or list_my_recipes request sent meanwhile carries the token
\* of that record.
C2_LoginStoresRecordUsedLater ==
    [][ /\ LoginSucceeded(lastCall') =>
              LET resp   == lastCall'.resp
                  member == Get(resp, "member", <<>>)
              IN  /\ authFile' # None
                  /\ Len(load_auth(authFile').v) = 3
                  /\ "tableId" \in DOMAIN member =>
                         StoredMemberId(authFile') = JInt(member.tableId)
                  /\ "token" \in DOMAIN resp =>
                         StoredToken(authFile') = JStr(resp.token)
                  /\ "email" \in DOMAIN member =>
                         StoredEmail(authFile') = JStr(member.email)
        /\ ~LoginSucceeded(lastCall') => authFile' = authFile
        /\ (AuthCall(lastCall') /\ authFile # None) =>
              SentForm(lastCall').token = StoredToken(authFile).v ]_vars

\* a list request sent after a login stored a non-empty token
C2_Witness ==
    /\ lastCall.op = "list_my_recipes"
    /\ Posted(lastCall)
    /\ authFile # None
    /\ SentForm(lastCall).token # <<>>
    /\ SentForm(lastCall).token = StoredToken(authFile).v

\* C3: in a create_recipe or list_my_recipes request the token is the token
\* of the stored Credential Record, and the empty string when no record is
\* stored; when the member id is not given by the caller but taken by the
\* command (create, list) from the record, memberId is the record's member id.
C3_EnvelopeReflectsRecord ==
    AuthCall(lastCall) =>
        /\ authFile # None => SentForm(lastCall).token = StoredToken(authFile).v
        /\ authFile = None => SentForm(lastCall).token = <<>>
        /\ lastCall.via = "cli" =>
              /\ authFile # None
              /\ JInt(SentForm(lastCall).memberId) = StoredMemberId(authFile)

\* the create command posted a recipe under the stored member id 7
C3_Witness ==
    /\ lastCall.op = "create_recipe"
    /\ lastCall.via = "cli"
    /\ Posted(lastCall)
    /\ SentForm(lastCall).memberId = 7
    /\ SentForm(lastCall).token # <<>>

\* C7 as stated: the envelope of login, create_recipe and list_my_recipes
\* holds every base field, interfaceVersion 20240918 and the fixed skey.
C7_AsStated ==
    (Posted(lastCall) /\ lastCall.op # "fetch_recipe") =>
        /\ BaseKeys \subseteq DOMAIN SentForm(lastCall)
        /\ SentForm(lastCall).interfaceVersion = 20240918
        /\ SentForm(lastCall).skey = "testskey"

\* C7 amended: create_recipe and list_my_recipes send every base field with
\* the value the builder gave it, whatever is merged on top; login sends the
\* base fields other than memberId and token, and neither of those two.
C7_BaseFields ==
    /\ AuthCall(lastCall) =>
          LET form == SentForm(lastCall)
          IN  /\ BaseKeys \subseteq DOMAIN form
              /\ form.interfaceVersion = 20240918
              /\ form.skey = "testskey"
              /\ form.phoneType = "Android"
              /\ form.clientType = 2
              /\ form.languageType = 1
              /\ form.memberId = lastCall.arg.member_id
              /\ form.token = (IF authFile = None THEN <<>> ELSE StoredToken(authFile).v)
    /\ (Posted(lastCall) /\ lastCall.op = "login") =>
          LET form == SentForm(lastCall)
          IN  /\ BaseKeys \ {"memberId", "token"} \subseteq DOMAIN form
              /\ "memberId" \notin DOMAIN form
              /\ "token" \notin DOMAIN form
              /\ form.interfaceVersion = 20240918
              /\ form.skey = "testskey"
              /\ form.phoneType = "Android"
              /\ form.clientType = 2
              /\ form.languageType = 1

\* a recipe named "token" posted while a token is stored
C7_Witness ==
    /\ lastCall.op = "create_recipe"
    /\ Posted(lastCall)
    /\ SentForm(lastCall).theName = "token"
    /\ SentForm(lastCall).token # <<>>

\* C8: the list envelope has adaptedModel exactly when the argument is not
\* zero, then with the argument's value; pageNumber is 1 and countPerPage 100.
C8_AdaptedModelFilter ==
    (lastCall.op = "list_my_recipes" /\ Posted(lastCall)) =>
        LET form == SentForm(lastCall)
            am   == lastCall.arg.adapted_model
        IN  /\ ("adaptedModel" \in DOMAIN form) <=> (am # 0)
            /\ "adaptedModel" \in DOMAIN form => form.adaptedModel = am
            /\ form.pageNumber = 1
            /\ form.countPerPage = 100

\* a list request with adapted_model = 0, sent without the filter
C8_Witness ==
    /\ lastCall.op = "list_my_recipes"
    /\ Posted(lastCall)
    /\ lastCall.arg.adapted_model = 0
    /\ "adaptedModel" \notin DOMAIN SentForm(lastCall)

\* C9: pourDataJSONStr of a create_recipe envelope parses back to the pour
\* list passed in, same pours in the same order, the empty list included;
\* the default pour stands in only when the argument is None.
C9_PourListRoundTrip ==
    (lastCall.op = "create_recipe" /\ Posted(lastCall)) =>
        Loads(SentForm(lastCall).pourDataJSONStr) =
            (IF lastCall.arg.pour_list = None THEN JList(<<DefaultPour>>)
             ELSE lastCall.arg.pour_list)

\* a recipe posted with two different pours
C9_Witness ==
    /\ lastCall.op = "create_recipe"
    /\ Posted(lastCall)
    /\ lastCall.arg.pour_list # None
    /\ Len(lastCall.arg.pour_list.v) = 2
    /\ lastCall.arg.pour_list.v[1] # lastCall.arg.pour_list.v[2]

CeilDiv(a, b) == (a + b - 1) \div b

\* C4: a plaintext of L bytes gives ceil(L/117) blocks of 128 bytes each;
\* every plaintext block but the last has 117 bytes, the last 1 to 117.
C4_Chunking ==
    ciphertext # NotRun =>
        LET L      == Len(plaintext)
            n      == CeilDiv(L, 117)
            blocks == PlainBlocks(plaintext)
        IN  /\ ciphertext.k = "bytes"
            /\ Len(ciphertext.v) = 128 * n
            /\ Len(blocks) = n
            /\ \A b \in 1..(n - 1) : Len(blocks[b]) = 117
            /\ n > 0 => Len(blocks[n]) \in 1..117
            /\ \A b \in 1..n :
                  PubKeyEncrypt(blocks[b], padSeed).k = "bytes"
                  /\ Len(PubKeyEncrypt(blocks[b], padSeed).v) = 128
            /\ L = 0 => ciphertext.v = <<>>

\* 118 bytes encrypted into two blocks
C4_Witness ==
    /\ ciphertext # NotRun
    /\ Len(plaintext) = 118
    /\ Len(ciphertext.v) = 256

\* the inverse of the single-block encryption
RsaByteInv(c) == ((c + 256 - 91) * 23) % 256

\* position of the 00 that ends the padding string
RECURSIVE PadEnd(_, _)
PadEnd(em, j) == IF j > Len(em) \/ em[j] = 0 THEN j ELSE PadEnd(em, j + 1)

DecryptBlock(c) ==
    LET em == [j \in 1..Len(c) |-> RsaByteInv(c[j])]
    IN  SubSeq(em, PadEnd(em, 3) + 1, Len(em))

RECURSIVE DecryptFrom(_, _)
DecryptFrom(ct, b) ==
    IF 128 * b > Len(ct) THEN <<>>
    ELSE DecryptBlock(SubSeq(ct, 128 * (b - 1) + 1, 128 * b)) \o DecryptFrom(ct, b + 1)

\* C5: cutting the ciphertext into 128-byte blocks, decrypting each and
\* joining the results in order gives back the plaintext.
C5_RoundTrip ==
    ciphertext # NotRun =>
        /\ ciphertext.k = "bytes"
        /\ Len(ciphertext.v) % 128 = 0
        /\ DecryptFrom(ciphertext.v, 1) = plaintext

\* 234 bytes, all zero, encrypted into two full blocks
C5_Witness ==
    /\ ciphertext # NotRun
    /\ Len(plaintext) = 234
    /\ plaintext[1] = 0
    /\ plaintext[234] = 0
    /\ Len(ciphertext.v) = 256

(***************************************************************************)
(* Properties of parse_share_id (SpecShare).                               *)
(***************************************************************************)
\* the query parameters of a URL: the text after the first ? cut at every &
QueryParams(s) ==
    LET parts == Split(s, <<"?">>)
    IN  IF Len(parts) = 2 THEN Split(parts[2], Amp) ELSE <<>>

Count(s, c) == Cardinality({ i \in 1..Len(s) : s[i] = c })

\* a URL whose query is name=value pairs, exactly one of them named id
IsUrlWithId(s) ==
    LET ps == QueryParams(s)
    IN  /\ ps # <<>>
        /\ \A i \in 1..Len(ps) :
              Count(ps[i], "=") = 1 /\ ps[i][1] # "=" /\ Count(ps[i], " ") = 0
        /\ Cardinality({ i \in 1..Len(ps) : MatchAt(ps[i], IdEq, 1) }) = 1

IdParamValue(s) ==
    LET ps == QueryParams(s)
        i  == CHOOSE j \in 1..Len(ps) : MatchAt(ps[j], IdEq, 1)
    IN  SubSeq(ps[i], 4, Len(ps[i]))

\* C6: for a URL with an id= query parameter, wherever it stands among the
\* parameters, the result is the URL-decoded value of that parameter; for an
\* input without "id=" it is the URL-decoded trimmed input.
C6_ShareId ==
    shareId # NotRun =>
        LET s == Strip(shareInput)
        IN  /\ IsUrlWithId(s) => shareId.v = unquote(IdParamValue(s))
            /\ ~Contains(s, IdEq) => shareId.v = unquote(s)

====
